---- MODULE Spec2Model ----
(***************************************************************************)
(* Price List Management Service (PriceListManagementService/app/main.py). *)
(*                                                                         *)
(* Two in-memory dictionaries, PRICES and PROMOTIONS, and five HTTP        *)
(* handlers over them.  Every handler runs to completion without awaiting, *)
(* so each request is one atomic step.                                     *)
(*                                                                         *)
(* Numbers.  Prices are Python floats; here a price is an integer number   *)
(* of thousandths of a currency unit (1 cent = 10), so that rounding to    *)
(* two decimals is a real computation.  Percentages are whole numbers.     *)
(* round(x, 2) is modelled on the exact product, ties to even.             *)
(*                                                                         *)
(* Optional values.  Python's None is the empty tuple and a present value  *)
(* v is the one-element tuple <<v>>.  A request body is a record; a field  *)
(* the client did not send is a field the record does not have.            *)
(***************************************************************************)
EXTENDS Integers, Sequences, FiniteSets, TLC

VARIABLES PRICES, PROMOTIONS, response, PRICES_before, PROMOTIONS_before

vars == <<PRICES, PROMOTIONS, response, PRICES_before, PROMOTIONS_before>>

(***************************************************************************)
(* Bounds of the request space.                                            *)
(***************************************************************************)
MaxBase == 2

ProductIds == {"", "p1"}

Currencies == {"USD", "EUR"}

\* -0.010, -0.005, 0.000, 0.005, 0.010, ... and 100.000
BasePrices == {5 * k : k \in (-MaxBase)..MaxBase} \cup {100000}

PercentMin == 0

PercentMax == 100

PercentInputs == {-1, 0, 20, 50, 100, 150}

(***************************************************************************)
(* Python values.                                                          *)
(***************************************************************************)
None == << >>

Some(v) == <<v>>

EmptyDict == [k \in {} |-> None]

\* d.get(k)
DictGet(d, k) == IF k \in DOMAIN d THEN Some(d[k]) ELSE None

\* d[k] = v
DictSet(d, k, v) == [x \in (DOMAIN d) \cup {k} |-> IF x = k THEN v ELSE d[x]]

\* percent is not None
Truthy_IsNotNone(percent) == percent # None

\* `if percent:` on an Optional[float]: None and 0.0 are falsy
Truthy(percent) == percent # None /\ percent[1] # 0

\* n / d cut off below (d > 0)
RoundHalfEven_Down(n, d) == n \div d

\* the integer nearest to n / d (d > 0), ties to the even one
RoundHalfEven(n, d) ==
    LET q == n \div d
        r == n - q * d
    IN  IF 2 * r < d THEN q
        ELSE IF 2 * r > d THEN q + 1
        ELSE IF q % 2 = 0 THEN q ELSE q + 1

\* round(base * (1 - percent / 100), 2), base and the result in thousandths
RoundedDiscount(base, percent) == 10 * RoundHalfEven(base * (100 - percent), 1000)

(***************************************************************************)
(* Request and response models.                                            *)
(***************************************************************************)
PriceCreateValid_NonEmpty(payload) ==
    /\ {"product_id", "currency", "base_price"} \subseteq DOMAIN payload
    /\ payload.product_id # ""

PriceCreateValid(payload) ==
    {"product_id", "currency", "base_price"} \subseteq DOMAIN payload

PromotionUpsertValid_NoUpperBound(payload) ==
    /\ {"product_id", "percent_off"} \subseteq DOMAIN payload
    /\ payload.percent_off >= PercentMin

PromotionUpsertValid(payload) ==
    /\ {"product_id", "percent_off"} \subseteq DOMAIN payload
    /\ payload.percent_off >= PercentMin
    /\ payload.percent_off <= PercentMax

PriceQueryValid(payload) ==
    {"product_id", "currency"} \subseteq DOMAIN payload

\* include_promotions: bool = Field(True, ...)
IncludePromotions(payload) ==
    IF "include_promotions" \in DOMAIN payload THEN payload.include_promotions ELSE TRUE

\* apply_promotions: bool = Query(True, ...)
ApplyPromotions(query) ==
    IF "apply_promotions" \in DOMAIN query THEN query.apply_promotions ELSE TRUE

PriceResponse(product_id, currency, base_price, final_price, promotion_applied) ==
    [product_id |-> product_id,
     currency |-> currency,
     final_price |-> final_price,
     base_price |-> base_price,
     promotion_applied |-> promotion_applied]

Ok(body) == [status |-> 200, body |-> body]

NotFound == [status |-> 404, body |-> [detail |-> "Price not found"]]

ValidationError == [status |-> 422, body |-> [detail |-> "validation error"]]

(***************************************************************************)
(* The requests the model draws from.                                      *)
(***************************************************************************)
PriceCreatePayloads ==
    [product_id : ProductIds, currency : Currencies, base_price : BasePrices]
    \cup [currency : {"USD"}, base_price : {5}]

PromotionUpsertPayloads ==
    [product_id : ProductIds, percent_off : PercentInputs]
    \cup [percent_off : {50}]

PriceQueryPayloads ==
    [product_id : ProductIds, currency : Currencies, include_promotions : BOOLEAN]
    \cup [product_id : ProductIds, currency : Currencies]
    \cup [product_id : ProductIds]

GetPriceQueries == [apply_promotions : BOOLEAN] \cup {[k \in {} |-> TRUE]}

(***************************************************************************)
(* Handlers: what each stores and what each returns.                       *)
(***************************************************************************)
\* PRICES.setdefault(payload.product_id, {...})
StorePrice_KeepsFirst(prices, payload) ==
    IF payload.product_id \in DOMAIN prices THEN prices
    ELSE DictSet(prices, payload.product_id,
                 [currency |-> payload.currency, base_price |-> payload.base_price])

\* PRICES[payload.product_id] = {...}
StorePrice(prices, payload) ==
    DictSet(prices, payload.product_id,
            [currency |-> payload.currency, base_price |-> payload.base_price])

UpsertFinalPrice(base_price, percent) ==
    IF Truthy(percent) THEN RoundedDiscount(base_price, percent[1]) ELSE base_price

UpsertPriceResult(promotions, payload) ==
    LET percent == DictGet(promotions, payload.product_id)
        final_price == UpsertFinalPrice(payload.base_price, percent)
    IN  Ok(PriceResponse(payload.product_id, payload.currency,
                         payload.base_price, final_price, percent))

GetPriceMissing(prices, product_id) == product_id \notin DOMAIN prices

\* PROMOTIONS.get(product_id), whatever the flag
GetPricePercent_IgnoresFlag(promotions, product_id, apply_promotions) ==
    DictGet(promotions, product_id)

GetPricePercent(promotions, product_id, apply_promotions) ==
    IF apply_promotions THEN DictGet(promotions, product_id) ELSE None

\* round(base * (1 - (percent or 0) / 100), 2)
GetFinalPrice_AlwaysRounds(base, percent) ==
    RoundedDiscount(base, IF percent = None THEN 0 ELSE percent[1])

GetFinalPrice(base, percent) ==
    IF ~Truthy(percent) THEN base ELSE RoundedDiscount(base, percent[1])

GetPriceResult(prices, promotions, product_id, query) ==
    IF GetPriceMissing(prices, product_id) THEN NotFound
    ELSE LET p == prices[product_id]
             base == p.base_price
             percent == GetPricePercent(promotions, product_id, ApplyPromotions(query))
             final_price == GetFinalPrice(base, percent)
         IN  Ok(PriceResponse(product_id, p.currency, base, final_price, percent))

\* a currency mismatch treated as a missing price
QueryPriceMissing_OnMismatch(prices, payload) ==
    \/ payload.product_id \notin DOMAIN prices
    \/ prices[payload.product_id].currency # payload.currency

QueryPriceMissing(prices, payload) == payload.product_id \notin DOMAIN prices

\* currency=payload.currency
QueryPriceCurrency_Echo(p, payload) == payload.currency

\* the mismatch branch passes: the stored currency is returned
QueryPriceCurrency(p, payload) == p.currency

QueryPricePercent(promotions, product_id, include_promotions) ==
    IF include_promotions THEN DictGet(promotions, product_id) ELSE None

QueryFinalPrice(base, percent) ==
    IF ~Truthy(percent) THEN base ELSE RoundedDiscount(base, percent[1])

QueryPriceResult(prices, promotions, payload) ==
    IF QueryPriceMissing(prices, payload) THEN NotFound
    ELSE LET p == prices[payload.product_id]
             base == p.base_price
             percent == QueryPricePercent(promotions, payload.product_id,
                                          IncludePromotions(payload))
             final_price == QueryFinalPrice(base, percent)
         IN  Ok(PriceResponse(payload.product_id, QueryPriceCurrency(p, payload),
                              base, final_price, percent))

\* PROMOTIONS[payload.product_id] = payload.percent_off
StorePromotion(promotions, payload) ==
    DictSet(promotions, payload.product_id, payload.percent_off)

UpsertPromotionResult(payload) ==
    Ok([status |-> "ok",
        promotion |-> [product_id |-> payload.product_id,
                       percent_off |-> payload.percent_off]])

HealthResult == Ok([status |-> "ok"])

Reply(op, request, result) ==
    [op |-> op, request |-> request, status |-> result.status, body |-> result.body]

(***************************************************************************)
(* The state machine.                                                      *)
(***************************************************************************)
Init ==
    /\ PRICES = EmptyDict
    /\ PROMOTIONS = EmptyDict
    /\ response = Reply("startup", None, Ok(None))
    /\ PRICES_before = EmptyDict
    /\ PROMOTIONS_before = EmptyDict

\* every request starts from the tables the previous one left
Snapshot ==
    /\ PRICES_before' = PRICES
    /\ PROMOTIONS_before' = PROMOTIONS

health ==
    /\ Snapshot
    /\ response' = Reply("health", None, HealthResult)
    /\ UNCHANGED <<PRICES, PROMOTIONS>>

upsert_price(payload) ==
    /\ Snapshot
    /\ IF PriceCreateValid(payload)
       THEN /\ PRICES' = StorePrice(PRICES, payload)
            /\ response' = Reply("upsert_price", payload,
                                 UpsertPriceResult(PROMOTIONS, payload))
       ELSE /\ PRICES' = PRICES
            /\ response' = Reply("upsert_price", payload, ValidationError)
    /\ PROMOTIONS' = PROMOTIONS

get_price(product_id, query) ==
    /\ Snapshot
    /\ response' = Reply("get_price", [product_id |-> product_id, query |-> query],
                         GetPriceResult(PRICES, PROMOTIONS, product_id, query))
    /\ UNCHANGED <<PRICES, PROMOTIONS>>

query_price(payload) ==
    /\ Snapshot
    /\ response' = Reply("query_price", payload,
                         IF PriceQueryValid(payload)
                         THEN QueryPriceResult(PRICES, PROMOTIONS, payload)
                         ELSE ValidationError)
    /\ UNCHANGED <<PRICES, PROMOTIONS>>

\* a promotion refused for a product that has no price
upsert_promotion_NeedsPrice(payload) ==
    /\ Snapshot
    /\ IF ~PromotionUpsertValid(payload)
       THEN /\ PROMOTIONS' = PROMOTIONS
            /\ response' = Reply("upsert_promotion", payload, ValidationError)
       ELSE IF payload.product_id \notin DOMAIN PRICES
       THEN /\ PROMOTIONS' = PROMOTIONS
            /\ response' = Reply("upsert_promotion", payload, NotFound)
       ELSE /\ PROMOTIONS' = StorePromotion(PROMOTIONS, payload)
            /\ response' = Reply("upsert_promotion", payload, UpsertPromotionResult(payload))
    /\ PRICES' = PRICES

upsert_promotion(payload) ==
    /\ Snapshot
    /\ IF PromotionUpsertValid(payload)
       THEN /\ PROMOTIONS' = StorePromotion(PROMOTIONS, payload)
            /\ response' = Reply("upsert_promotion", payload, UpsertPromotionResult(payload))
       ELSE /\ PROMOTIONS' = PROMOTIONS
            /\ response' = Reply("upsert_promotion", payload, ValidationError)
    /\ PRICES' = PRICES

Next ==
    \/ health
    \/ \E payload \in PriceCreatePayloads : upsert_price(payload)
    \/ \E product_id \in ProductIds, query \in GetPriceQueries : get_price(product_id, query)
    \/ \E payload \in PriceQueryPayloads : query_price(payload)
    \/ \E payload \in PromotionUpsertPayloads : upsert_promotion(payload)

Spec == Init /\ [][Next]_vars

(***************************************************************************)
(* Vocabulary of the properties.                                           *)
(***************************************************************************)
Abs(n) == IF n < 0 THEN -n ELSE n

\* final_price is a whole number of cents, at most half a cent away from
\* base_price * (1 - percent / 100)
RoundedTo2(final_price, base_price, percent) ==
    /\ final_price % 10 = 0
    /\ Abs(100 * final_price - base_price * (100 - percent)) <= 500

Request == response.request

UpsertPriceDone == response.op = "upsert_price" /\ response.status = 200

GetPriceAsked == response.op = "get_price"

QueryPriceAsked == response.op = "query_price" /\ PriceQueryValid(Request)

UpsertPromotionAsked ==
    /\ response.op = "upsert_promotion"
    /\ {"product_id", "percent_off"} \subseteq DOMAIN Request

TablesUntouched == PRICES = PRICES_before /\ PROMOTIONS = PROMOTIONS_before

NoQuery == [k \in {} |-> TRUE]

PromotionsWithout(product_id) ==
    [k \in (DOMAIN PROMOTIONS) \ {product_id} |-> PROMOTIONS[k]]

(***************************************************************************)
(* C1                                                                      *)
(***************************************************************************)
\* C1: once upsert_price(P, C, B) has answered and P has no promotion record,
\* get_price(P) with apply_promotions left to its default answers 200 with
\* product_id P, currency C, base_price B, final_price B and no
\* promotion_applied.
C1_RoundTrip ==
    (UpsertPriceDone /\ Request.product_id \notin DOMAIN PROMOTIONS) =>
        LET got == GetPriceResult(PRICES, PROMOTIONS, Request.product_id, NoQuery)
        IN  /\ got.status = 200
            /\ got.body = [product_id |-> Request.product_id,
                           currency |-> Request.currency,
                           base_price |-> Request.base_price,
                           final_price |-> Request.base_price,
                           promotion_applied |-> None]

\* a price of 0.005 overwriting another price of a product that has no promotion
C1_Witness ==
    /\ UpsertPriceDone
    /\ Request.product_id \notin DOMAIN PROMOTIONS
    /\ Request.product_id \in DOMAIN PRICES_before
    /\ Request.base_price = 5
    /\ GetPriceResult(PRICES, PROMOTIONS, Request.product_id, NoQuery).body.final_price = 5

(***************************************************************************)
(* C2                                                                      *)
(***************************************************************************)
Promoted(product_id) ==
    /\ product_id \in DOMAIN PROMOTIONS
    /\ PROMOTIONS[product_id] > 0
    /\ PROMOTIONS[product_id] <= 100

DiscountedView(view, base_price, percent) ==
    /\ view.base_price = base_price
    /\ view.promotion_applied = Some(percent)
    /\ RoundedTo2(view.final_price, base_price, percent)

\* C2: with a stored promotion p, 0 < p <= 100, the answers of upsert_price,
\* of get_price with promotions applied and of query_price with promotions
\* included carry base_price B, promotion_applied p and final_price
\* B * (1 - p / 100) rounded to two decimals.
C2_DiscountRule ==
    /\ (UpsertPriceDone /\ Promoted(Request.product_id)) =>
           DiscountedView(response.body, Request.base_price,
                          PROMOTIONS[Request.product_id])
    /\ (/\ GetPriceAsked
        /\ response.status = 200
        /\ ApplyPromotions(Request.query)
        /\ Promoted(Request.product_id)) =>
           DiscountedView(response.body, PRICES[Request.product_id].base_price,
                          PROMOTIONS[Request.product_id])
    /\ (/\ QueryPriceAsked
        /\ response.status = 200
        /\ IncludePromotions(Request)
        /\ Promoted(Request.product_id)) =>
           DiscountedView(response.body, PRICES[Request.product_id].base_price,
                          PROMOTIONS[Request.product_id])

\* B = 100.00 and p = 20 give 80.00
C2_Witness ==
    /\ GetPriceAsked
    /\ response.status = 200
    /\ ApplyPromotions(Request.query)
    /\ response.body.base_price = 100000
    /\ response.body.promotion_applied = Some(20)
    /\ response.body.final_price = 80000

(***************************************************************************)
(* C3                                                                      *)
(***************************************************************************)
\* C3: get_price and query_price answer 404 exactly when the product has no
\* price record, whether or not it has a promotion record, answer 200
\* otherwise, and leave PRICES and PROMOTIONS as they were.
C3_NotFoundOnReads ==
    (GetPriceAsked \/ QueryPriceAsked) =>
        /\ response.status = 404 <=> Request.product_id \notin DOMAIN PRICES
        /\ response.status = 200 <=> Request.product_id \in DOMAIN PRICES
        /\ response.status = 404 => response.body = [detail |-> "Price not found"]
        /\ TablesUntouched

\* a read of a product that has a promotion and no price, while another
\* product has a price
C3_Witness ==
    /\ QueryPriceAsked
    /\ response.status = 404
    /\ Request.product_id \in DOMAIN PROMOTIONS
    /\ PRICES # EmptyDict

(***************************************************************************)
(* C4                                                                      *)
(***************************************************************************)
\* C4: upsert_promotion with percent_off below 0 or above 100 answers 422 and
\* leaves PRICES and PROMOTIONS as they were; every stored percent_off lies
\* in [0, 100].
C4_PromotionRange ==
    /\ (/\ UpsertPromotionAsked
        /\ (Request.percent_off < 0 \/ Request.percent_off > 100)) =>
           (response.status = 422 /\ TablesUntouched)
    /\ \A k \in DOMAIN PROMOTIONS : PROMOTIONS[k] >= 0 /\ PROMOTIONS[k] <= 100

\* 150 refused for a product whose promotion and price stay
C4_Witness ==
    /\ UpsertPromotionAsked
    /\ Request.percent_off = 150
    /\ response.status = 422
    /\ Request.product_id \in DOMAIN PROMOTIONS
    /\ Request.product_id \in DOMAIN PRICES

(***************************************************************************)
(* C5                                                                      *)
(***************************************************************************)
\* C5: for a product that has a price record, query_price with any currency
\* and flag answers 200 with the view get_price gives for that flag in the
\* same state: the stored currency and the stored base price.
C5_CurrencyIgnored ==
    /\ \A product_id \in DOMAIN PRICES, currency \in Currencies, flag \in BOOLEAN :
           LET asked == QueryPriceResult(PRICES, PROMOTIONS,
                                         [product_id |-> product_id,
                                          currency |-> currency,
                                          include_promotions |-> flag])
           IN  /\ asked.status = 200
               /\ asked = GetPriceResult(PRICES, PROMOTIONS, product_id,
                                         [apply_promotions |-> flag])
               /\ asked.body.currency = PRICES[product_id].currency
               /\ asked.body.base_price = PRICES[product_id].base_price
    /\ (QueryPriceAsked /\ Request.product_id \in DOMAIN PRICES) =>
           /\ response.status = 200
           /\ response.body =
                  GetPriceResult(PRICES, PROMOTIONS, Request.product_id,
                                 [apply_promotions |-> IncludePromotions(Request)]).body
           /\ response.body.currency = PRICES[Request.product_id].currency

\* EUR asked of a price stored in USD, under a promotion
C5_Witness ==
    /\ QueryPriceAsked
    /\ response.status = 200
    /\ Request.currency = "EUR"
    /\ response.body.currency = "USD"
    /\ response.body.final_price # response.body.base_price

(***************************************************************************)
(* C6                                                                      *)
(***************************************************************************)
\* C6: upsert_price(P, C2, B2) leaves exactly (C2, B2) as the record of P,
\* whatever the record was, leaves the record of every other product and
\* PROMOTIONS as they were; no other request changes PRICES.
C6_LastWriteWins ==
    /\ UpsertPriceDone =>
           /\ PRICES[Request.product_id] =
                  [currency |-> Request.currency, base_price |-> Request.base_price]
           /\ DOMAIN PRICES = (DOMAIN PRICES_before) \cup {Request.product_id}
           /\ \A k \in (DOMAIN PRICES_before) \ {Request.product_id} :
                  PRICES[k] = PRICES_before[k]
           /\ PROMOTIONS = PROMOTIONS_before
    /\ ~UpsertPriceDone => PRICES = PRICES_before

\* a record replaced in both fields, beside another product's record and a promotion
C6_Witness ==
    /\ UpsertPriceDone
    /\ Request.product_id \in DOMAIN PRICES_before
    /\ PRICES_before[Request.product_id].currency # Request.currency
    /\ PRICES_before[Request.product_id].base_price # Request.base_price
    /\ DOMAIN PRICES # {Request.product_id}
    /\ Request.product_id \in DOMAIN PROMOTIONS

(***************************************************************************)
(* C7                                                                      *)
(***************************************************************************)
UndiscountedView(view, product_id) ==
    /\ view.base_price = PRICES[product_id].base_price
    /\ view.final_price = PRICES[product_id].base_price
    /\ view.promotion_applied = None

\* C7: with the flag off, get_price and query_price answer final_price equal
\* to base_price equal to the stored base price and no promotion_applied,
\* whatever promotion is stored, and the promotion stays stored.
C7_FlagOff ==
    /\ (GetPriceAsked /\ response.status = 200 /\ ~ApplyPromotions(Request.query)) =>
           (UndiscountedView(response.body, Request.product_id) /\ TablesUntouched)
    /\ (QueryPriceAsked /\ response.status = 200 /\ ~IncludePromotions(Request)) =>
           (UndiscountedView(response.body, Request.product_id) /\ TablesUntouched)

\* 100.00 under a stored 50% promotion, read with the flag off
C7_Witness ==
    /\ GetPriceAsked
    /\ response.status = 200
    /\ ~ApplyPromotions(Request.query)
    /\ Request.product_id \in DOMAIN PROMOTIONS
    /\ PROMOTIONS[Request.product_id] = 50
    /\ response.body.final_price = 100000

(***************************************************************************)
(* C8                                                                      *)
(***************************************************************************)
\* the request just answered returned a price view under a stored promotion of 0
ViewUnderZeroPromotion ==
    /\ response.status = 200
    /\ \/ UpsertPriceDone
       \/ GetPriceAsked /\ ApplyPromotions(Request.query)
       \/ QueryPriceAsked /\ IncludePromotions(Request)
    /\ Request.product_id \in DOMAIN PROMOTIONS
    /\ PROMOTIONS[Request.product_id] = 0

\* the view the same request gets when the product has no promotion record
ViewWithoutPromotion ==
    IF response.op = "upsert_price"
    THEN UpsertPriceResult(PromotionsWithout(Request.product_id), Request).body
    ELSE IF response.op = "get_price"
    THEN GetPriceResult(PRICES, PromotionsWithout(Request.product_id),
                        Request.product_id, Request.query).body
    ELSE QueryPriceResult(PRICES, PromotionsWithout(Request.product_id), Request).body

\* C8 as claimed: under a stored promotion of 0 the view is the one returned
\* with no promotion record, in every field, promotion_applied included.
C8_ZeroIsNoPromotion ==
    ViewUnderZeroPromotion => response.body = ViewWithoutPromotion

\* C8 amended: under a stored promotion of 0 the view has the product_id,
\* currency, base_price and final_price of the view returned with no promotion
\* record, and promotion_applied is 0 where that view has none.
C8_ZeroKeepsThePrice ==
    ViewUnderZeroPromotion =>
        /\ response.body.product_id = ViewWithoutPromotion.product_id
        /\ response.body.currency = ViewWithoutPromotion.currency
        /\ response.body.base_price = ViewWithoutPromotion.base_price
        /\ response.body.final_price = ViewWithoutPromotion.final_price
        /\ response.body.promotion_applied = Some(0)
        /\ ViewWithoutPromotion.promotion_applied = None

\* 0.005 read under a promotion of 0
C8_Witness ==
    /\ ViewUnderZeroPromotion
    /\ GetPriceAsked
    /\ response.body.base_price = 5

(***************************************************************************)
(* C9                                                                      *)
(***************************************************************************)
\* C9 as claimed: upsert_price with the empty string as product_id answers
\* 422, and the empty string is never a key of PRICES.
C9_EmptyIdRejected ==
    /\ (/\ response.op = "upsert_price"
        /\ "product_id" \in DOMAIN Request
        /\ Request.product_id = "") => response.status = 422
    /\ "" \notin DOMAIN PRICES

\* C9 amended: upsert_price requires product_id to be present: without it the
\* answer is 422 and the tables stay as they were; the empty string is
\* accepted as any other product id, and becomes a key of PRICES.
C9_IdRequiredNotNonEmpty ==
    /\ (response.op = "upsert_price" /\ "product_id" \notin DOMAIN Request) =>
           (response.status = 422 /\ TablesUntouched)
    /\ (/\ response.op = "upsert_price"
        /\ {"product_id", "currency", "base_price"} \subseteq DOMAIN Request
        /\ Request.product_id = "") =>
           /\ response.status = 200
           /\ "" \in DOMAIN PRICES
           /\ PRICES[""] = [currency |-> Request.currency,
                            base_price |-> Request.base_price]

\* the first price stored under the empty product id
C9_Witness ==
    /\ UpsertPriceDone
    /\ Request.product_id = ""
    /\ "" \notin DOMAIN PRICES_before
    /\ "" \in DOMAIN PRICES

(***************************************************************************)
(* C10                                                                     *)
(***************************************************************************)
\* final_price is base_price with percent applied
Applied(view, base_price, percent) ==
    /\ view.promotion_applied = Some(percent)
    /\ view.base_price = base_price
    /\ IF percent = 0 THEN view.final_price = base_price
       ELSE RoundedTo2(view.final_price, base_price, percent)

\* C10: upsert_promotion(P, p) with p in [0, 100] answers 200 whether or not P
\* has a price record, stores p for P and changes nothing else, so that
\* get_price(P) still answers 404 when P had no price; no other request
\* changes PROMOTIONS; upsert_price and get_price with promotions applied
\* apply the stored p to the base price.
C10_PromotionBeforePrice ==
    /\ (/\ UpsertPromotionAsked
        /\ Request.percent_off >= 0
        /\ Request.percent_off <= 100) =>
           /\ response.status = 200
           /\ PRICES = PRICES_before
           /\ PROMOTIONS[Request.product_id] = Request.percent_off
           /\ DOMAIN PROMOTIONS = (DOMAIN PROMOTIONS_before) \cup {Request.product_id}
           /\ \A k \in (DOMAIN PROMOTIONS_before) \ {Request.product_id} :
                  PROMOTIONS[k] = PROMOTIONS_before[k]
           /\ Request.product_id \notin DOMAIN PRICES_before =>
                  \A query \in GetPriceQueries :
                      GetPriceResult(PRICES, PROMOTIONS, Request.product_id,
                                     query).status = 404
    /\ ~(response.op = "upsert_promotion" /\ response.status = 200) =>
           PROMOTIONS = PROMOTIONS_before
    /\ (UpsertPriceDone /\ Request.product_id \in DOMAIN PROMOTIONS) =>
           Applied(response.body, Request.base_price, PROMOTIONS[Request.product_id])
    /\ (/\ GetPriceAsked
        /\ response.status = 200
        /\ ApplyPromotions(Request.query)
        /\ Request.product_id \in DOMAIN PROMOTIONS) =>
           Applied(response.body, PRICES[Request.product_id].base_price,
                   PROMOTIONS[Request.product_id])

\* the first price of a product whose promotion of 50 was stored before it
C10_Witness ==
    /\ UpsertPriceDone
    /\ Request.product_id \notin DOMAIN PRICES_before
    /\ Request.product_id \in DOMAIN PROMOTIONS_before
    /\ PROMOTIONS[Request.product_id] = 50
    /\ response.body.promotion_applied = Some(50)
    /\ response.body.base_price = 100000
    /\ response.body.final_price = 50000

====
